---- MODULE Spec2Model ----
(***************************************************************************)
(* Model of libimage/search.go: Runtime.Search (the concurrent dispatcher  *)
(* over the unqualified-search registries), Runtime.searchImageInRegistry  *)
(* (one registry, repository-search mode), searchRepositoryTags (one       *)
(* registry, tag-listing mode) and the SearchFilter predicates.            *)
(*                                                                         *)
(* Go strings are sequences of one-character strings.  A Go error is a     *)
(* record [multi, causes]: nil has no cause, a plain error has one cause,  *)
(* and a *multierror.Error lists one cause per Append.                     *)
(***************************************************************************)
EXTENDS Integers, Sequences, FiniteSets, TLC

----------------------------------------------------------------------------
(* Program constants, search.go:19-25 *)

searchTruncLength == 44

searchMaxQueries == 25

searchMaxParallel == 6

----------------------------------------------------------------------------
(* Bounds of the model *)

\* longest registry list the registry-list provider returns
MaxConfigured == 6

\* registry lists up to this length are drawn with every mix of registries
MaxMixed == 2

\* largest number of raw hits (or tags) the registry client returns
MaxRaw == 31

\* largest options.Limit
MaxLimit == 41

\* options.Limit ranges down to -MaxNegLimit
MaxNegLimit == 2
MaxDescription == 50
MaxWide == 2

----------------------------------------------------------------------------
(* Strings *)

Min(a, b) == IF a < b THEN a ELSE b

\* position of the first c in s, 0 when s has none
IndexOf(s, c) ==
    IF \E k \in 1..Len(s) : s[k] = c
    THEN CHOOSE k \in 1..Len(s) : s[k] = c /\ \A j \in 1..(k - 1) : s[j] # c
    ELSE 0

\* strings.Contains(s, c) for a one-character c
Contains(s, c) == IndexOf(s, c) # 0

\* SplitN2 made to split at the last separator
SplitN2_LastSeparator(s, c) ==
    IF Contains(s, c)
    THEN LET last == CHOOSE q \in 1..Len(s) :
                        s[q] = c /\ \A r \in (q + 1)..Len(s) : s[r] # c
         IN  << SubSeq(s, 1, last - 1), SubSeq(s, last + 1, Len(s)) >>
    ELSE << s >>

\* strings.SplitN(s, c, 2)
SplitN2(s, c) ==
    IF Contains(s, c)
    THEN << SubSeq(s, 1, IndexOf(s, c) - 1), SubSeq(s, IndexOf(s, c) + 1, Len(s)) >>
    ELSE << s >>

\* strings.Split(s, c)
RECURSIVE Split(_, _)
Split(s, c) ==
    IF Contains(s, c)
    THEN << SubSeq(s, 1, IndexOf(s, c) - 1) >> \o Split(SubSeq(s, IndexOf(s, c) + 1, Len(s)), c)
    ELSE << s >>

\* strings.Join(parts, c)
RECURSIVE Join(_, _)
Join(parts, c) ==
    IF Len(parts) = 0 THEN << >>
    ELSE IF Len(parts) = 1 THEN parts[1]
    ELSE parts[1] \o << c >> \o Join(Tail(parts), c)

\* strings.ReplaceAll(s, old, new) for one-character old and new
ReplaceAll(s, old, new) == [k \in 1..Len(s) |-> IF s[k] = old THEN new ELSE s[k]]

\* the concatenation of a sequence of sequences, first to last
RECURSIVE Flatten(_)
Flatten(ss) == IF Len(ss) = 0 THEN << >> ELSE ss[1] \o Flatten(Tail(ss))

OK == << "[", "O", "K", "]" >>

Dots == << ".", ".", "." >>

Library == << "/", "l", "i", "b", "r", "a", "r", "y", "/" >>

DockerIo == << "d", "o", "c", "k", "e", "r", ".", "i", "o" >>

----------------------------------------------------------------------------
(* Errors *)

Nil == [multi |-> FALSE, causes |-> << >>]

Err(cause) == [multi |-> FALSE, causes |-> << cause >>]

\* MultiAppend made to keep the last error only
MultiAppend_Overwrite(multiErr, err) == [multi |-> TRUE, causes |-> err.causes]

\* multierror.Append(multiErr, err) for a plain err
MultiAppend(multiErr, err) == [multi |-> TRUE, causes |-> multiErr.causes \o err.causes]

Canceled == Err("context canceled")

----------------------------------------------------------------------------
(* SearchFilter, search.go:248-264.  A types.OptionalBool is one of         *)
(* "undefined", "true", "false".                                            *)

matchesStarFilter(f, result) == result.StarCount >= f.Stars

matchesAutomatedFilter(f, result) ==
    IF f.IsAutomated # "undefined"
    THEN result.IsAutomated = (f.IsAutomated = "true")
    ELSE TRUE

\* matchesOfficialFilter made to read the filter as a plain boolean
matchesOfficialFilter_OnlyTrue(f, result) ==
    IF f.IsOfficial = "true" THEN result.IsOfficial ELSE TRUE

matchesOfficialFilter(f, result) ==
    IF f.IsOfficial # "undefined"
    THEN result.IsOfficial = (f.IsOfficial = "true")
    ELSE TRUE

----------------------------------------------------------------------------
(* The per-registry searcher.  `client` is what the registry client        *)
(* answers for this registry: [searchErr, hits, parse, tagsErr, tags].      *)
(*   searchErr  dockerTransport.SearchRegistry's error (Nil: none)          *)
(*   hits       the hits it returns                                         *)
(*   parse      alltransports.ParseImageName of registry/term: "docker"     *)
(*              (parsed, docker transport), "other" (parsed, another        *)
(*              transport), "bare" (parsed only with the docker:// prefix), *)
(*              "invalid" (parsed neither way)                              *)
(*   tagsErr    dockerTransport.GetRepositoryTags's error (Nil: none)       *)
(*   tags       the tags it returns                                         *)

\* the loop `for i := 0; i < limit; i++` visits these (1-based) positions
LoopIndices(limit) == IF limit > 0 THEN 1..limit ELSE {}

\* search.go:135-138, the limit handed to the registry client
requestLimit(options) ==
    IF options.Limit > 0 THEN options.Limit ELSE searchMaxQueries

\* retainLimit made to keep the ceiling of 25 under an explicit Limit
retainLimit_Ceiling(n, options) ==
    LET limit1 == IF n < searchMaxQueries THEN n ELSE searchMaxQueries
    IN  IF options.Limit # 0
        THEN IF options.Limit < limit1 THEN options.Limit ELSE limit1
        ELSE limit1

\* search.go:166-175, the number of results to output, n = len(results)
retainLimit(n, options) ==
    LET limit1 == IF n < searchMaxQueries THEN n ELSE searchMaxQueries
    IN  IF options.Limit # 0
        THEN IF options.Limit < n THEN options.Limit ELSE n
        ELSE limit1

\* search.go:227-236, the same for tags, n = len(tags)
tagsLimit(n, options) ==
    LET limit1 == IF n < searchMaxQueries THEN n ELSE searchMaxQueries
    IN  IF options.Limit # 0
        THEN LET limit2 == n
             IN  IF options.Limit < limit2 THEN options.Limit ELSE limit2
        ELSE limit1

\* shortIndex made to keep the registry whole
shortIndex_Whole(registry) == registry

\* search.go:157-161, the registry shortened to its last two labels
shortIndex(registry) ==
    LET arr == Split(registry, ".")
    IN  IF Len(arr) > 2
        THEN Join(SubSeq(arr, Len(arr) - 1, Len(arr)), ".")
        ELSE registry

\* search.go:183-206, one hit as a SearchResult
formatResult(hit, registry, options) ==
    LET index == shortIndex(registry)
        description1 == ReplaceAll(hit.Description, "\n", " ")
        description ==
            IF Len(description1) > 44 /\ ~options.NoTrunc
            THEN SubSeq(description1, 1, searchTruncLength) \o Dots
            ELSE description1
        name ==
            IF index = DockerIo /\ ~Contains(hit.Name, "/")
            THEN index \o Library \o hit.Name
            ELSE registry \o << "/" >> \o hit.Name
    IN  [Index       |-> index,
         Name        |-> name,
         Description |-> description,
         Official    |-> IF hit.IsOfficial THEN OK ELSE << >>,
         Automated   |-> IF hit.IsAutomated THEN OK ELSE << >>,
         Stars       |-> hit.StarCount,
         Tag         |-> << >>]

\* search.go:180, whether the hit passes the three filters
matchesFilters(options, hit) ==
    /\ matchesAutomatedFilter(options.Filter, hit)
    /\ matchesOfficialFilter(options.Filter, hit)
    /\ matchesStarFilter(options.Filter, hit)

\* search.go:240, imageRef.DockerReference().Name() of registry/term
referenceName(registry, term) == registry \o << "/" >> \o term

\* search.go:212-246
searchRepositoryTags(registry, term, options, client) ==
    IF client.parse \in {"other", "invalid"}
    THEN [data |-> << >>, err |-> Err("must be a docker reference")]
    ELSE IF client.tagsErr # Nil
    THEN [data |-> << >>, err |-> Err("error getting repository tags")]
    ELSE LET limit == tagsLimit(Len(client.tags), options)
             visited == LoopIndices(limit)
         IN  [data |-> [k \in visited |->
                          [Index       |-> << >>,
                           Name        |-> referenceName(registry, term),
                           Description |-> << >>,
                           Official    |-> << >>,
                           Automated   |-> << >>,
                           Stars       |-> 0,
                           Tag         |-> client.tags[k]]],
              err  |-> Nil]

\* paramsArr made to filter all the hits and then keep the first `limit`
paramsArr_FilterFirst(results, k, limit, registry, options) ==
    LET passing == SelectSeq(results, LAMBDA hit : matchesFilters(options, hit))
        kept == IF limit > 0 THEN SubSeq(passing, 1, Min(limit, Len(passing))) ELSE << >>
    IN  [j \in 1..Len(kept) |-> formatResult(kept[j], registry, options)]

\* search.go:177-209, the filter-and-format loop over the first `limit` hits
RECURSIVE paramsArr(_, _, _, _, _)
paramsArr(results, k, limit, registry, options) ==
    IF k \notin LoopIndices(limit) THEN << >>
    ELSE IF ~matchesFilters(options, results[k])
    THEN paramsArr(results, k + 1, limit, registry, options)
    ELSE << formatResult(results[k], registry, options) >>
             \o paramsArr(results, k + 1, limit, registry, options)

\* search.go:133-210
searchImageInRegistry(term, registry, options, client) ==
    IF options.ListTags
    THEN LET tagged == searchRepositoryTags(registry, term, options, client)
         IN  IF tagged.err # Nil
             THEN [data |-> << >>, err |-> tagged.err]
             ELSE tagged
    ELSE IF client.searchErr # Nil
    THEN [data |-> << >>, err |-> client.searchErr]
    ELSE [data |-> paramsArr(client.hits, 1,
                             retainLimit(Len(client.hits), options),
                             registry, options),
          err  |-> Nil]

----------------------------------------------------------------------------
(* The registries of the model and what the registry client answers for    *)
(* each: docker.io has two matching repositories and two tags, q.io one    *)
(* of each, e.io none, x.io fails.                                          *)

EIo == << "e", ".", "i", "o" >>

XIo == << "x", ".", "i", "o" >>

QIo == << "q", ".", "i", "o" >>

Registries == { DockerIo, QIo, EIo, XIo }

PlainTerm == << "t" >>

HitA == [Name        |-> << "a" >>,
         Description |-> << "d", "\n", "e" >>,
         StarCount   |-> 3,
         IsOfficial  |-> TRUE,
         IsAutomated |-> FALSE]

HitB == [Name        |-> << "f", "/", "b" >>,
         Description |-> << >>,
         StarCount   |-> 0,
         IsOfficial  |-> FALSE,
         IsAutomated |-> TRUE]

\* the registry client's answer for a registry
ClientAnswer(registry) ==
    [searchErr |-> IF registry \in { XIo, << >> } THEN Err("search failed") ELSE Nil,
     hits      |-> IF registry = DockerIo THEN << HitA, HitB >>
                   ELSE IF registry = QIo THEN << HitB >>
                   ELSE << >>,
     parse     |-> "docker",
     tagsErr   |-> IF registry \in { XIo, << >> } THEN Err("tags failed") ELSE Nil,
     tags      |-> IF registry = DockerIo THEN << << "1" >>, << "2" >> >>
                   ELSE IF registry = QIo THEN << << "3" >> >>
                   ELSE << >>]

\* the registry client's answer once it saw the context cancelled
CanceledAnswer ==
    [searchErr |-> Canceled,
     hits      |-> << >>,
     parse     |-> "docker",
     tagsErr   |-> Canceled,
     tags      |-> << >>]

\* the answers the client can give: its call takes ctx, so a cancelled ctx
\* may abort it, or the answer may already be there; x.io refuses the
\* connection either way
ClientAnswers(registry, isCancelled) ==
    { ClientAnswer(registry) }
      \cup (IF isCancelled /\ registry # XIo THEN { CanceledAnswer } ELSE {})

NoFilter == [Stars |-> 0, IsAutomated |-> "undefined", IsOfficial |-> "undefined"]

DefaultOptions ==
    [Filter |-> NoFilter, Limit |-> 0, NoTrunc |-> FALSE, ListTags |-> FALSE]

TagOptions ==
    [Filter |-> NoFilter, Limit |-> 1, NoTrunc |-> FALSE, ListTags |-> TRUE]

\* sequences over S of length exactly n
RECURSIVE SeqsOfLen(_, _)
SeqsOfLen(S, n) ==
    IF n = 0 THEN { << >> }
    ELSE { << x >> \o s : x \in S, s \in SeqsOfLen(S, n - 1) }

\* docker.io, x.io, ..., x.io, q.io of length n
LongList(n) ==
    [k \in 1..n |-> IF k = 1 THEN DockerIo ELSE IF k = n THEN QIo ELSE XIo]

PrefixedTerm == XIo \o << "/" >> \o PlainTerm

SlashedTerm == DockerIo \o << "/" >> \o PlainTerm \o << "/" >> \o PlainTerm

\* a term whose registry prefix is empty
EmptyPrefixTerm == << "/", "t" >>

\* the calls of Search in the model: short registry lists of every mix in
\* both modes, long ones, a term with two slashes, one with an empty
\* prefix, and a call for which
\* UnqualifiedSearchRegistries fails
Inputs ==
    { [registries |-> l, term |-> t, options |-> o, resolveErr |-> FALSE] :
        l \in UNION { SeqsOfLen(Registries, n) : n \in 0..MaxMixed },
        t \in { PlainTerm, PrefixedTerm },
        o \in { DefaultOptions, TagOptions } }
      \cup
    { [registries |-> LongList(n), term |-> t, options |-> DefaultOptions,
       resolveErr |-> FALSE] :
        n \in (MaxMixed + 1)..MaxConfigured, t \in { PlainTerm, PrefixedTerm } }
      \cup
    { [registries |-> l, term |-> SlashedTerm, options |-> o, resolveErr |-> FALSE] :
        l \in { << >>, << EIo >>, << QIo >> }, o \in { DefaultOptions, TagOptions } }
      \cup
    { [registries |-> << DockerIo >>, term |-> EmptyPrefixTerm, options |-> TagOptions,
       resolveErr |-> FALSE] }
      \cup
    { [registries |-> << >>, term |-> PlainTerm, options |-> DefaultOptions,
       resolveErr |-> TRUE] }

----------------------------------------------------------------------------
(* Runtime.Search, search.go:72-131 *)

VARIABLES
    input,             \* the call: ambient registries, term, options
    cancelled,         \* ctx is done
    pc,                \* the dispatcher: "start", "acquire", "returned"
    searchRegistries,  \* the resolved registry list
    term,              \* the effective search term
    i,                 \* the loop index of search.go:101, 1-based
    sem,               \* permits held of the semaphore
    wg,                \* the WaitGroup's counter
    data,              \* the outcome slots
    task,              \* the goroutine of each slot: "idle", "running", "joined", "exited"
    ret,               \* what Search returned, and the line of the return
    hist,              \* where the call was when ctx was cancelled
    overtook,          \* some task completed while a task launched before it ran
    queries,           \* how often each registry of the list was queried
    writes,            \* how often each outcome slot was written
    call,              \* a direct call of searchImageInRegistry
    probe,             \* its outcome
    pair               \* two calls of Search running side by side

vars == << input, cancelled, pc, searchRegistries, term, i, sem, wg, data, task,
           ret, hist, overtook, queries, writes, call, probe, pair >>

dispatcherVars == << input, cancelled, pc, searchRegistries, term, i, sem, wg, data,
                     task, ret, hist, overtook, queries, writes >>

NotReturned == [line |-> 0, results |-> << >>, err |-> Nil]

NoHistory == [beforePermit |-> FALSE, waitingFor |-> 0, produced |-> FALSE]

NoPair == << >>

NoCall == [registry |-> << >>, term |-> << >>, options |-> DefaultOptions,
           client |-> CanceledAnswer]

NoProbe == [done |-> FALSE, requested |-> 0, limit |-> 0, data |-> << >>, err |-> Nil]

\* the zero value of searchOutputData
ZeroOutput == [data |-> << >>, err |-> Nil]

Init ==
    /\ input \in Inputs
    /\ cancelled = FALSE
    /\ pc = "start"
    /\ searchRegistries = << >>
    /\ term = input.term
    /\ i = 1
    /\ sem = 0
    /\ wg = 0
    /\ data = << >>
    /\ task = << >>
    /\ ret = NotReturned
    /\ hist = NoHistory
    /\ overtook = FALSE
    /\ queries = << >>
    /\ writes = << >>
    /\ call = NoCall
    /\ probe = NoProbe
    /\ pair = NoPair

N == Len(searchRegistries)

\* the slots whose task has written its outcome
Written == { k \in 1..Len(task) : task[k] \in {"joined", "exited"} }

\* the slots whose task was launched and has not completed: it runs its
\* query, or has yet to release its permit
InFlight == { k \in 1..Len(task) : task[k] \in {"running", "joined"} }

\* search.go:85-88, the registry list and term after the term is split
resolvedRegistries(registries, rawTerm) ==
    LET spl == SplitN2(rawTerm, "/")
    IN  IF Len(spl) > 1 THEN Append(registries, spl[1]) ELSE registries

resolvedTerm(rawTerm) ==
    LET spl == SplitN2(rawTerm, "/")
    IN  IF Len(spl) > 1 THEN spl[2] ELSE rawTerm

\* search.go:73-99
Start ==
    /\ pc = "start"
    /\ IF input.resolveErr
       THEN /\ pc' = "returned"
            /\ ret' = [line |-> 75, results |-> << >>, err |-> Err("registries.conf")]
            /\ UNCHANGED << searchRegistries, term, sem, wg, data, task, queries, writes >>
       ELSE /\ searchRegistries' = resolvedRegistries(input.registries, input.term)
            /\ term' = resolvedTerm(input.term)
            /\ sem' = 0
            /\ wg' = Len(searchRegistries')
            /\ data' = [k \in 1..Len(searchRegistries') |-> ZeroOutput]
            /\ task' = [k \in 1..Len(searchRegistries') |-> "idle"]
            /\ queries' = [k \in 1..Len(searchRegistries') |-> 0]
            /\ writes' = [k \in 1..Len(searchRegistries') |-> 0]
            /\ pc' = "acquire"
            /\ UNCHANGED ret
    /\ UNCHANGED << input, cancelled, i, hist, overtook, call, probe, pair >>

\* AcquireAndLaunch made to skip the registries left once a slot holds an error
AcquireAndLaunch_FailFast ==
    /\ pc = "acquire"
    /\ i <= N
    /\ sem < searchMaxParallel
    /\ IF \E k \in 1..N : data[k].err # Nil
       THEN /\ wg' = wg - 1
            /\ UNCHANGED << sem, task >>
       ELSE /\ sem' = sem + 1
            /\ task' = [task EXCEPT ![i] = "running"]
            /\ UNCHANGED wg
    /\ i' = i + 1
    /\ UNCHANGED << input, cancelled, pc, searchRegistries, term, data, ret, hist, overtook,
                    queries, writes, call, probe, pair >>

\* AcquireAndLaunch made to launch without waiting for a free permit
AcquireAndLaunch_NoBound ==
    /\ pc = "acquire"
    /\ i <= N
    /\ sem' = sem + 1
    /\ task' = [task EXCEPT ![i] = "running"]
    /\ i' = i + 1
    /\ UNCHANGED << input, cancelled, pc, searchRegistries, term, wg, data, ret, hist,
                    overtook, queries, writes,
                    call, probe, pair >>

\* search.go:102-112, sem.Acquire returns nil and the goroutine is launched.
\* golang.org/x/sync/semaphore documents: "If ctx is already done, Acquire
\* may still succeed without blocking", and a waiter that was granted a
\* permit before it noticed the cancellation keeps it; so a free permit is
\* all this step needs, ctx done or not.
AcquireAndLaunch ==
    /\ pc = "acquire"
    /\ i <= N
    /\ sem < searchMaxParallel
    /\ sem' = sem + 1
    /\ task' = [task EXCEPT ![i] = "running"]
    /\ i' = i + 1
    /\ UNCHANGED << input, cancelled, pc, searchRegistries, term, wg, data, ret, hist, overtook,
                    queries, writes,
                    call, probe, pair >>

\* AcquireCanceled made to return the outer, nil err
AcquireCanceled_ShadowedErr ==
    /\ pc = "acquire"
    /\ i <= N
    /\ cancelled
    /\ pc' = "returned"
    /\ ret' = [line |-> 103, results |-> << >>, err |-> Nil]
    /\ UNCHANGED << input, cancelled, searchRegistries, term, i, sem, wg, data, task,
                    hist, overtook, queries, writes,
                    call, probe, pair >>

\* AcquireCanceled made to launch the goroutine before it looks at the error
AcquireCanceled_LaunchFirst ==
    /\ pc = "acquire"
    /\ i <= N
    /\ cancelled
    /\ task' = [task EXCEPT ![i] = "running"]
    /\ pc' = "returned"
    /\ ret' = [line |-> 103, results |-> << >>, err |-> Canceled]
    /\ UNCHANGED << input, cancelled, searchRegistries, term, i, sem, wg, data,
                    hist, overtook, queries, writes,
                    call, probe, pair >>

\* AcquireCanceled made to return what the slots hold so far, optimistically
AcquireCanceled_Optimistic ==
    /\ pc = "acquire"
    /\ i <= N
    /\ cancelled
    /\ pc' = "returned"
    /\ LET sofar == Flatten([k \in 1..Len(data) |-> data[k].data])
       IN  ret' = IF Len(sofar) > 0
                  THEN [line |-> 103, results |-> sofar, err |-> Nil]
                  ELSE [line |-> 103, results |-> << >>, err |-> Canceled]
    /\ UNCHANGED << input, cancelled, searchRegistries, term, i, sem, wg, data, task,
                    hist, overtook, queries, writes,
                    call, probe, pair >>

\* search.go:102-104, sem.Acquire returns ctx.Err(): ctx is done, while
\* Acquire waits for a permit or (in the releases of the semaphore that look
\* at ctx first) before it takes a free one
AcquireCanceled ==
    /\ pc = "acquire"
    /\ i <= N
    /\ cancelled
    /\ pc' = "returned"
    /\ ret' = [line |-> 103, results |-> << >>, err |-> Canceled]
    /\ UNCHANGED << input, cancelled, searchRegistries, term, i, sem, wg, data, task,
                    hist, overtook, queries, writes,
                    call, probe, pair >>

\* TaskSearch made to index the slots by the loop variable i, not by its copy
TaskSearch_LoopVariable(index) ==
    /\ index \in 1..Len(task)
    /\ task[index] = "running"
    /\ \E client \in ClientAnswers(searchRegistries[index], cancelled) :
         data' = [data EXCEPT ![IF i <= N THEN i ELSE N] =
                    searchImageInRegistry(term, searchRegistries[index],
                                          input.options, client)]
    /\ queries' = [queries EXCEPT ![index] = @ + 1]
    /\ writes' = [writes EXCEPT ![IF i <= N THEN i ELSE N] = @ + 1]
    /\ wg' = wg - 1
    /\ task' = [task EXCEPT ![index] = "joined"]
    /\ overtook' = (overtook \/ \E k \in 1..(index - 1) : task[k] = "running")
    /\ UNCHANGED << input, cancelled, pc, searchRegistries, term, i, sem, ret, hist,
                    call, probe, pair >>

\* search.go:109-110 and the deferred wg.Done of search.go:108
TaskSearch(index) ==
    /\ index \in 1..Len(task)
    /\ task[index] = "running"
    /\ \E client \in ClientAnswers(searchRegistries[index], cancelled) :
         data' = [data EXCEPT ![index] =
                    searchImageInRegistry(term, searchRegistries[index],
                                          input.options, client)]
    /\ queries' = [queries EXCEPT ![index] = @ + 1]
    /\ writes' = [writes EXCEPT ![index] = @ + 1]
    /\ wg' = wg - 1
    /\ task' = [task EXCEPT ![index] = "joined"]
    /\ overtook' = (overtook \/ \E k \in 1..(index - 1) : task[k] = "running")
    /\ UNCHANGED << input, cancelled, pc, searchRegistries, term, i, sem, ret, hist,
                    call, probe, pair >>

\* TaskRelease made to exit without releasing the permit
TaskRelease_KeepPermit(index) ==
    /\ index \in 1..Len(task)
    /\ task[index] = "joined"
    /\ task' = [task EXCEPT ![index] = "exited"]
    /\ UNCHANGED << input, cancelled, pc, searchRegistries, term, i, sem, wg, data, ret,
                    hist, overtook, queries, writes, call, probe, pair >>

\* the deferred sem.Release of search.go:107
TaskRelease(index) ==
    /\ index \in 1..Len(task)
    /\ task[index] = "joined"
    /\ sem' = sem - 1
    /\ task' = [task EXCEPT ![index] = "exited"]
    /\ UNCHANGED << input, cancelled, pc, searchRegistries, term, i, wg, data, ret,
                    hist, overtook, queries, writes,
                    call, probe, pair >>

\* aggregate made to leave the loop at the first failed slot
aggregate_StopAtError(d, k) ==
    LET failed == { j \in 1..k : d[j].err # Nil }
        stop == IF failed = {} THEN k + 1
                ELSE CHOOSE j \in failed : \A m \in failed : j <= m
    IN  [results  |-> Flatten([j \in 1..(stop - 1) |-> d[j].data]),
         multiErr |-> IF failed = {} THEN Nil ELSE MultiAppend(Nil, d[stop].err)]

\* search.go:115-123, results and multiErr after the slots 1..k
RECURSIVE aggregate(_, _)
aggregate(d, k) ==
    IF k = 0 THEN [results |-> << >>, multiErr |-> Nil]
    ELSE LET before == aggregate(d, k - 1)
         IN  IF d[k].err # Nil
             THEN [results  |-> before.results,
                   multiErr |-> MultiAppend(before.multiErr, d[k].err)]
             ELSE [results  |-> before.results \o d[k].data,
                   multiErr |-> before.multiErr]

\* WaitAndReturn made to aggregate without waiting for the tasks
WaitAndReturn_NoWait ==
    /\ pc = "acquire"
    /\ i > N
    /\ LET agg == aggregate(data, Len(data))
       IN  ret' = IF Len(agg.results) > 0
                  THEN [line |-> 128, results |-> agg.results, err |-> Nil]
                  ELSE [line |-> 130, results |-> agg.results, err |-> agg.multiErr]
    /\ pc' = "returned"
    /\ UNCHANGED << input, cancelled, searchRegistries, term, i, sem, wg, data, task,
                    hist, overtook, queries, writes, call, probe, pair >>

\* WaitAndReturn made to return multiErr along with the results
WaitAndReturn_KeepErr ==
    /\ pc = "acquire"
    /\ i > N
    /\ wg = 0
    /\ LET agg == aggregate(data, Len(data))
       IN  ret' = IF Len(agg.results) > 0
                  THEN [line |-> 128, results |-> agg.results, err |-> agg.multiErr]
                  ELSE [line |-> 130, results |-> agg.results, err |-> agg.multiErr]
    /\ pc' = "returned"
    /\ UNCHANGED << input, cancelled, searchRegistries, term, i, sem, wg, data, task,
                    hist, overtook, queries, writes,
                    call, probe, pair >>

\* search.go:114-130, wg.Wait returns and the slots are aggregated
WaitAndReturn ==
    /\ pc = "acquire"
    /\ i > N
    /\ wg = 0
    /\ LET agg == aggregate(data, Len(data))
       IN  ret' = IF Len(agg.results) > 0
                  THEN [line |-> 128, results |-> agg.results, err |-> Nil]
                  ELSE [line |-> 130, results |-> agg.results, err |-> agg.multiErr]
    /\ pc' = "returned"
    /\ UNCHANGED << input, cancelled, searchRegistries, term, i, sem, wg, data, task,
                    hist, overtook, queries, writes,
                    call, probe, pair >>

\* the caller cancels ctx, before or during the call
Cancel ==
    /\ ~cancelled
    /\ pc # "returned"
    /\ cancelled' = TRUE
    /\ hist' = [beforePermit |-> (pc = "start" \/ i = 1),
                waitingFor   |-> IF pc = "acquire" /\ i <= N /\ sem = searchMaxParallel
                                 THEN i ELSE 0,
                produced     |-> \E k \in Written :
                                     data[k].err = Nil /\ Len(data[k].data) > 0]
    /\ UNCHANGED << input, pc, searchRegistries, term, i, sem, wg, data, task, ret,
                    overtook, queries, writes,
                    call, probe, pair >>

Next ==
    \/ Start
    \/ AcquireAndLaunch
    \/ AcquireCanceled
    \/ \E index \in 1..Len(task) : TaskSearch(index)
    \/ \E index \in 1..Len(task) : TaskRelease(index)
    \/ WaitAndReturn
    \/ Cancel

Spec == Init /\ [][Next]_vars

\* Search under a ctx that is never cancelled
NextLive ==
    \/ Start
    \/ AcquireAndLaunch
    \/ \E index \in 1..MaxConfigured + 1 : TaskSearch(index)
    \/ \E index \in 1..MaxConfigured + 1 : TaskRelease(index)
    \/ WaitAndReturn

\* the Go scheduler runs every runnable goroutine: the dispatcher takes its
\* next step when it can, every query returns, every deferred call runs
Fairness ==
    /\ WF_vars(Start)
    /\ WF_vars(AcquireAndLaunch)
    /\ WF_vars(WaitAndReturn)
    /\ \A index \in 1..MaxConfigured + 1 :
          WF_vars(TaskSearch(index)) /\ WF_vars(TaskRelease(index))

SpecLive == Init /\ [][NextLive]_vars /\ Fairness

----------------------------------------------------------------------------
(* searchImageInRegistry called on its own, on answers of the registry     *)
(* client of every length up to MaxRaw and every Limit in                  *)
(* -MaxNegLimit..MaxLimit, in both modes.                                   *)

Digits == << "0", "1", "2", "3", "4", "5", "6", "7", "8", "9" >>

\* the decimal numeral of k
RECURSIVE Numeral(_)
Numeral(k) ==
    IF k < 10 THEN << Digits[k + 1] >>
    ELSE Numeral(k \div 10) \o << Digits[(k % 10) + 1] >>

\* the k-th hit of a long answer: repository r<k> with k stars
HitAt(k) == [Name        |-> << "r" >> \o Numeral(k),
             Description |-> << >>,
             StarCount   |-> k,
             IsOfficial  |-> FALSE,
             IsAutomated |-> FALSE]

\* an answer of n hits and n tags
LongAnswer(n) ==
    [searchErr |-> Nil,
     hits      |-> [k \in 1..n |-> HitAt(k)],
     parse     |-> "docker",
     tagsErr   |-> Nil,
     tags      |-> [k \in 1..n |-> << "v" >> \o Numeral(k)]]

\* the ways the registry client fails
FailingAnswers ==
    { [LongAnswer(1) EXCEPT !.searchErr = Err("search failed")],
      [LongAnswer(1) EXCEPT !.tagsErr = Err("tags failed")],
      [LongAnswer(1) EXCEPT !.parse = "other"],
      [LongAnswer(1) EXCEPT !.parse = "invalid"],
      [LongAnswer(1) EXCEPT !.parse = "bare"] }

\* every raw count with every Limit, in both modes
LimitCalls ==
    { [registry |-> DockerIo, term |-> PlainTerm,
       options  |-> [Filter |-> NoFilter, Limit |-> limit, NoTrunc |-> FALSE,
                     ListTags |-> listTags],
       client   |-> LongAnswer(n)] :
        n \in 0..MaxRaw, limit \in (0 - MaxNegLimit)..MaxLimit, listTags \in BOOLEAN }

\* every failure of the client, in both modes
FailingCalls ==
    { [registry |-> EIo, term |-> PlainTerm,
       options  |-> [DefaultOptions EXCEPT !.ListTags = listTags],
       client   |-> c] :
        c \in FailingAnswers, listTags \in BOOLEAN }

StarCounts == << 0, 2, 5 >>

\* twelve hits r1..r12, one for each star count, official and automated flag
FilterHit(k) ==
    [Name        |-> << "r" >> \o Numeral(k),
     Description |-> << >>,
     StarCount   |-> StarCounts[((k - 1) % 3) + 1],
     IsOfficial  |-> (((k - 1) \div 3) % 2 = 1),
     IsAutomated |-> ((k - 1) \div 6 = 1)]

FilterHits == [k \in 1..12 |-> FilterHit(k)]

\* the same hits, last to first
FilterHitsReversed == [k \in 1..12 |-> FilterHit(13 - k)]

OptionalBools == { "undefined", "true", "false" }

\* every filter on the twelve hits, in both orders, with every Limit that
\* retains some, all or more than all of them
FilterCalls ==
    { [registry |-> QIo, term |-> PlainTerm,
       options  |-> [Filter   |-> [Stars |-> stars, IsAutomated |-> automated,
                                   IsOfficial |-> official],
                     Limit    |-> limit,
                     NoTrunc  |-> FALSE,
                     ListTags |-> FALSE],
       client   |-> [LongAnswer(0) EXCEPT !.hits = hits]] :
        stars \in { 0, 2, 5, 6 }, automated \in OptionalBools,
        official \in OptionalBools, limit \in 0..13,
        hits \in { FilterHits, FilterHitsReversed } }

\* registries of one to four labels, under docker.io and not
NameRegistries ==
    { DockerIo,
      << "m", "." >> \o DockerIo,
      << "n", ".", "m", "." >> \o DockerIo,
      DockerIo \o << ".", "x" >>,
      QIo,
      << "m", "." >> \o QIo,
      << "h" >> }

\* hit names of one, two and three path components
NameHits ==
    << [HitAt(1) EXCEPT !.Name = << "a" >>],
       [HitAt(2) EXCEPT !.Name = << "f", "/", "b" >>],
       [HitAt(3) EXCEPT !.Name = << "a", "/", "b", "/", "c" >>] >>

\* the three names on every registry
NameCalls ==
    { [registry |-> registry, term |-> PlainTerm, options |-> DefaultOptions,
       client   |-> [LongAnswer(0) EXCEPT !.hits = NameHits]] :
        registry \in NameRegistries }

\* a Go string is a sequence of bytes: the two bytes of the UTF-8 encoding
\* of one character outside ASCII, a lead byte and a continuation byte
WideChar == << "C3", "A9" >>

ContinuationBytes == { "A9" }

\* a description of n ASCII characters, the second a newline if asked,
\* followed by w two-byte characters
DescriptionOf(n, w, newline) ==
    [p \in 1..n |-> IF newline /\ p = 2 THEN "\n" ELSE "d"]
        \o Flatten([q \in 1..w |-> WideChar])

\* one hit with every description, with and without NoTrunc
DescriptionCalls ==
    { [registry |-> QIo, term |-> PlainTerm,
       options  |-> [DefaultOptions EXCEPT !.NoTrunc = noTrunc],
       client   |-> [LongAnswer(0) EXCEPT
                       !.hits = << [HitAt(1) EXCEPT
                                      !.Description = DescriptionOf(n, w, newline)] >>]] :
        n \in 0..MaxDescription, w \in 0..MaxWide, newline \in BOOLEAN,
        noTrunc \in BOOLEAN }

Calls ==
    LimitCalls \cup FailingCalls \cup FilterCalls \cup NameCalls \cup DescriptionCalls

InitSearchOne ==
    /\ input = [registries |-> << >>, term |-> PlainTerm, options |-> DefaultOptions,
                resolveErr |-> FALSE]
    /\ cancelled = FALSE
    /\ pc = "call"
    /\ searchRegistries = << >>
    /\ term = PlainTerm
    /\ i = 1
    /\ sem = 0
    /\ wg = 0
    /\ data = << >>
    /\ task = << >>
    /\ ret = NotReturned
    /\ hist = NoHistory
    /\ overtook = FALSE
    /\ queries = << >>
    /\ writes = << >>
    /\ call \in Calls
    /\ probe = NoProbe
    /\ pair = NoPair

\* search.go:133-210 run on `call`; requested is the limit handed to the
\* client (search.go:153), limit the bound of the loop (search.go:178, 238)
SearchOne ==
    /\ pc = "call"
    /\ ~probe.done
    /\ LET out == searchImageInRegistry(call.term, call.registry, call.options,
                                        call.client)
       IN  probe' = [done      |-> TRUE,
                     requested |-> requestLimit(call.options),
                     limit     |-> IF call.options.ListTags
                                   THEN tagsLimit(Len(call.client.tags), call.options)
                                   ELSE retainLimit(Len(call.client.hits), call.options),
                     data      |-> out.data,
                     err       |-> out.err]
    /\ UNCHANGED << dispatcherVars, call, pair >>

NextSearchOne == SearchOne

SpecSearchOne == InitSearchOne /\ [][NextSearchOne]_vars

----------------------------------------------------------------------------
(* Two calls of Runtime.Search on the same Runtime, side by side, under a   *)
(* ctx that is not cancelled. sem and wg are locals of the call            *)
(* (search.go:96-97), so each call has its own; the goroutines of a call   *)
(* are counted, not told apart: `running` of them are before their wg.Done *)
(* and sem - running of them are between wg.Done and sem.Release.          *)

\* the length of both calls' registry lists
PairLen == MaxConfigured + 1

PairCalls == 1..2

\* search.go:96-99, sem := semaphore.NewWeighted(...), wg.Add(len(...))
StartOf(c) ==
    /\ pc = "pair"
    /\ pair[c].pc = "start"
    /\ pair' = [pair EXCEPT ![c] = [pc |-> "acquire", i |-> 1, sem |-> 0,
                                    wg |-> PairLen, running |-> 0]]
    /\ UNCHANGED << dispatcherVars, call, probe >>

\* AcquireAndLaunchOf made to draw the permit from one pool for all calls
AcquireAndLaunchOf_SharedPool(c) ==
    /\ pc = "pair"
    /\ pair[c].pc = "acquire"
    /\ pair[c].i <= PairLen
    /\ pair[1].sem + pair[2].sem < searchMaxParallel
    /\ pair' = [pair EXCEPT ![c].sem = @ + 1, ![c].running = @ + 1, ![c].i = @ + 1]
    /\ UNCHANGED << dispatcherVars, call, probe >>

\* search.go:102-112, sem.Acquire on the call's own semaphore and the launch
AcquireAndLaunchOf(c) ==
    /\ pc = "pair"
    /\ pair[c].pc = "acquire"
    /\ pair[c].i <= PairLen
    /\ pair[c].sem < searchMaxParallel
    /\ pair' = [pair EXCEPT ![c].sem = @ + 1, ![c].running = @ + 1, ![c].i = @ + 1]
    /\ UNCHANGED << dispatcherVars, call, probe >>

\* search.go:109-110 and the deferred wg.Done of search.go:108
TaskSearchOf(c) ==
    /\ pc = "pair"
    /\ pair[c].running > 0
    /\ pair' = [pair EXCEPT ![c].running = @ - 1, ![c].wg = @ - 1]
    /\ UNCHANGED << dispatcherVars, call, probe >>

\* the deferred sem.Release of search.go:107
TaskReleaseOf(c) ==
    /\ pc = "pair"
    /\ pair[c].sem > pair[c].running
    /\ pair' = [pair EXCEPT ![c].sem = @ - 1]
    /\ UNCHANGED << dispatcherVars, call, probe >>

\* search.go:114-130, wg.Wait returns and the call returns
WaitAndReturnOf(c) ==
    /\ pc = "pair"
    /\ pair[c].pc = "acquire"
    /\ pair[c].i > PairLen
    /\ pair[c].wg = 0
    /\ pair' = [pair EXCEPT ![c].pc = "returned"]
    /\ UNCHANGED << dispatcherVars, call, probe >>

InitPair ==
    /\ input = [registries |-> << >>, term |-> PlainTerm, options |-> DefaultOptions,
                resolveErr |-> FALSE]
    /\ cancelled = FALSE
    /\ pc = "pair"
    /\ searchRegistries = << >>
    /\ term = PlainTerm
    /\ i = 1
    /\ sem = 0
    /\ wg = 0
    /\ data = << >>
    /\ task = << >>
    /\ ret = NotReturned
    /\ hist = NoHistory
    /\ overtook = FALSE
    /\ queries = << >>
    /\ writes = << >>
    /\ call = NoCall
    /\ probe = NoProbe
    /\ pair = [c \in PairCalls |-> [pc |-> "start", i |-> 1, sem |-> 0, wg |-> 0,
                                    running |-> 0]]

NextPair ==
    \E c \in PairCalls :
        \/ StartOf(c)
        \/ AcquireAndLaunchOf(c)
        \/ TaskSearchOf(c)
        \/ TaskReleaseOf(c)
        \/ WaitAndReturnOf(c)

SpecPair == InitPair /\ [][NextPair]_vars

----------------------------------------------------------------------------
(* Properties of Runtime.Search *)

Returned == pc = "returned"

\* Search returned from the aggregation of search.go:127-130
ReturnedAggregate == Returned /\ ret.line \in {128, 130}

\* what registry k's query yields when ctx is not cancelled
Outcome(k) ==
    searchImageInRegistry(term, searchRegistries[k], input.options,
                          ClientAnswer(searchRegistries[k]))

Succeeds(k) == Outcome(k).err = Nil /\ Len(Outcome(k).data) >= 1

Fails(k) == Outcome(k).err # Nil

\* C1: without cancellation, when at least one registry's query succeeds
\* with one result or more, Search returns a non-empty result sequence and
\* a nil error, however many other registries failed and in whatever order
\* the tasks completed.
C1_OptimisticSuccess ==
    (Returned /\ ~cancelled /\ \E k \in 1..N : Succeeds(k))
        => (Len(ret.results) >= 1 /\ ret.err = Nil)

\* a return with a registry that succeeded and one before it that failed
C1_Witness ==
    /\ Returned
    /\ ~cancelled
    /\ \E k \in 1..N : Succeeds(k) /\ \E j \in 1..(k - 1) : Fails(j)
    /\ Len(ret.results) >= 1

\* C2: without cancellation, when the registry list is not empty and every
\* registry's query fails, Search returns no result and an aggregated error
\* with one cause per registry of the resolved list, the registry taken
\* from the term's prefix included.
C2_AllFail ==
    (Returned /\ ~cancelled /\ N >= 1 /\ \A k \in 1..N : Fails(k))
        => /\ ret.results = << >>
           /\ ret.err # Nil
           /\ ret.err.multi
           /\ Len(ret.err.causes) = N
           /\ N = Len(input.registries) + (IF Contains(input.term, "/") THEN 1 ELSE 0)

\* a return with three failing registries, the last from the term's prefix
C2_Witness ==
    /\ Returned
    /\ ~cancelled
    /\ N = 3
    /\ Len(input.registries) = 2
    /\ \A k \in 1..N : Fails(k)
    /\ Len(ret.err.causes) = 3

\* C3: at any moment at most 6 per-registry tasks are launched and not yet
\* completed, whatever the length of the registry list.
C3_AtMostSixInFlight == Cardinality(InFlight) <= 6

\* six tasks run their queries while a seventh registry waits for a permit
C3_Witness ==
    /\ pc = "acquire"
    /\ i = 7
    /\ N >= 7
    /\ Cardinality({ k \in 1..Len(task) : task[k] = "running" }) = 6

\* the outcomes registry k's query can have, ctx cancelled or not
PossibleOutcomes(k) ==
    { searchImageInRegistry(term, searchRegistries[k], input.options, c) :
        c \in ClientAnswers(searchRegistries[k], cancelled) }

\* C4: the sequence Search returns from its aggregation is the
\* concatenation, in registry-list order, of the results of the registries
\* whose query succeeded, slot k holding the outcome of registry k, in
\* whatever order the tasks completed; without cancellation it is the
\* concatenation of what each listed registry yields.
C4_RegistryListOrder ==
    ReturnedAggregate
        => /\ \A k \in 1..N : data[k] \in PossibleOutcomes(k)
           /\ ret.results =
                Flatten([k \in 1..N |-> IF data[k].err = Nil THEN data[k].data ELSE << >>])
           /\ ~cancelled =>
                ret.results =
                  Flatten([k \in 1..N |-> IF Fails(k) THEN << >> ELSE Outcome(k).data])

\* a return with results of two different registries, the first docker.io,
\* after a task completed before one launched earlier
C4_Witness ==
    /\ ReturnedAggregate
    /\ overtook
    /\ N >= 3
    /\ searchRegistries[1] = DockerIo
    /\ \E k \in 2..N : data[k].err = Nil /\ Len(data[k].data) >= 1
                        /\ searchRegistries[k] # searchRegistries[1]
    /\ Len(data[1].data) >= 1

\* sem.Acquire returned the cancellation error and Search returned it
ReturnedCanceled == Returned /\ ret.line = 103

\* no task was launched for the registries from k on
NoneLaunchedFrom(k) == \A j \in k..Len(task) : task[j] = "idle"

\* C5 as stated: once ctx is cancelled before any permit was granted, no
\* task is ever started and Search, once past the resolution of the
\* registry list, returns no result and the cancellation error.
C5_Original ==
    hist.beforePermit
        => /\ NoneLaunchedFrom(1)
           /\ (Returned /\ ret.line # 75) => (ret.results = << >> /\ ret.err = Canceled)

\* C5 amended: when ctx is cancelled before any permit was granted and the
\* first Acquire reports the cancellation, Search returns no result and the
\* cancellation error and no task is ever started.  (Acquire may instead
\* take a free permit, and an empty registry list has no Acquire.)
C5_FirstAcquireCanceled ==
    (ReturnedCanceled /\ i = 1)
        => /\ hist.beforePermit
           /\ ret.results = << >>
           /\ ret.err = Canceled
           /\ NoneLaunchedFrom(1)

\* Search returned from the first Acquire of a list of two registries
C5_Witness ==
    /\ ReturnedCanceled
    /\ i = 1
    /\ N >= 2
    /\ hist.beforePermit

\* C6 as stated: once ctx is cancelled while the dispatcher waits for a
\* permit for registry i, no task is ever launched for registry i or a
\* later one, and Search returns the cancellation error.
C6_Original ==
    hist.waitingFor # 0
        => /\ NoneLaunchedFrom(hist.waitingFor)
           /\ Returned => (ret.results = << >> /\ ret.err = Canceled)

\* C6 amended: when Acquire for registry i returns the cancellation error,
\* Search returns that error with no result, and no task is ever launched
\* for registry i or a later one.  (A permit released before Acquire
\* notices the cancellation is still granted, and registry i is queried.)
C6_AcquireCanceledStops ==
    ReturnedCanceled
        => /\ ret.results = << >>
           /\ ret.err = Canceled
           /\ NoneLaunchedFrom(i)
           /\ \A k \in 1..(i - 1) : task[k] # "idle"

\* ctx was cancelled while the dispatcher waited for the seventh permit,
\* and Search returned from that Acquire
C6_Witness ==
    /\ ReturnedCanceled
    /\ hist.waitingFor = 7
    /\ i = 7
    /\ sem = 6
    /\ NoneLaunchedFrom(7)

\* slot k holds results
Produced(k) == data[k].err = Nil /\ Len(data[k].data) >= 1

\* the causes of the failed slots, in slot order
FailedCauses == Flatten([k \in 1..Len(data) |-> data[k].err.causes])

\* C7 as stated, for the case it singles out: when ctx is cancelled during
\* the call after some registry had produced results, Search returns
\* results with a nil error, also when the cancellation hits the permit
\* acquisition.
C7_Original ==
    (Returned /\ cancelled /\ hist.produced)
        => (ret.err = Nil /\ Len(ret.results) >= 1)

\* C7 amended: when ctx is cancelled during the call and Acquire returns
\* the cancellation error, Search returns that error and no result, also
\* when registries had produced results before.  When Search reaches its
\* aggregation instead, the optimistic policy applies: results produced,
\* before the cancellation or after it, are returned with a nil error, and
\* with no result the error aggregates the errors of the failed queries,
\* the aborted ones included, and is nil when none failed.
C7_CanceledReturn ==
    (Returned /\ cancelled)
        => /\ ret.line = 103 => (ret.results = << >> /\ ret.err = Canceled)
           /\ ret.line \in {128, 130} =>
                /\ hist.produced => (ret.err = Nil /\ Len(ret.results) >= 1)
                /\ (\E k \in 1..N : Produced(k))
                       => (ret.err = Nil /\ Len(ret.results) >= 1)
                /\ (\A k \in 1..N : ~Produced(k))
                       => /\ ret.results = << >>
                          /\ ret.err.causes = FailedCauses
                          /\ (ret.err = Nil) = (\A k \in 1..N : data[k].err = Nil)

\* docker.io had produced its results when ctx was cancelled, six tasks
\* held the permits, and Search returned the cancellation error alone
C7_Witness ==
    /\ ReturnedCanceled
    /\ hist.produced
    /\ sem = 6
    /\ Produced(1)
    /\ ret.results = << >>

\* C8, stated for a return from the aggregation
ErrorContract ==
    /\ ret.err # Nil => (ret.results = << >> /\ \E k \in 1..N : data[k].err # Nil)
    /\ ret.err # Nil =>
          /\ ret.err.causes = FailedCauses
          /\ Len(ret.err.causes) = Cardinality({ k \in 1..N : data[k].err # Nil })
    /\ (\A k \in 1..N : data[k] = ZeroOutput) => (ret.results = << >> /\ ret.err = Nil)

\* C8 as stated: at every return of Search the error is non-nil only if the
\* results are empty and a registry's query failed, the error then holds
\* one cause per failed registry, and with no failure and no match Search
\* returns no result and a nil error.
C8_Original == Returned => ErrorContract

\* C8 amended: that holds at every return from the aggregation
\* (search.go:127-130).  The two early returns, on a failure of
\* UnqualifiedSearchRegistries (search.go:75) and on Acquire returning the
\* cancellation error (search.go:103), return no result and that one plain
\* error, whether or not a registry's query failed.
C8_ErrorContract ==
    /\ ReturnedAggregate =>
          /\ ErrorContract
          /\ ret.err # Nil => ret.err.multi
          /\ ~cancelled =>
                Len(ret.err.causes) =
                  IF \E k \in 1..N : Succeeds(k) THEN 0
                  ELSE Cardinality({ k \in 1..N : Fails(k) })
    /\ (Returned /\ ret.line \in {75, 103}) =>
          /\ ret.results = << >>
          /\ ret.err # Nil
          /\ ~ret.err.multi
          /\ Len(ret.err.causes) = 1

\* a return with an error of two causes from a list of three registries,
\* one of which succeeded with no result
C8_Witness ==
    /\ ReturnedAggregate
    /\ N = 3
    /\ Len(ret.err.causes) = 2
    /\ \E k \in 1..N : data[k] = ZeroOutput

----------------------------------------------------------------------------
(* Properties of searchImageInRegistry *)

\* the number of raw hits, or tags, the client returned to the call
RawCount ==
    IF call.options.ListTags THEN Len(call.client.tags) ELSE Len(call.client.hits)

\* the first k raw items are the output, in their order
OutputIsFirst(k) ==
    /\ Len(probe.data) = k
    /\ \A j \in 1..k :
          IF call.options.ListTags
          THEN probe.data[j].Tag = call.client.tags[j]
          ELSE probe.data[j].Stars = call.client.hits[j].StarCount

\* C9: for every raw count n and every Limit >= 0, in both modes, the raw
\* items retained are the first min(n, 25) when Limit = 0 and the first
\* min(Limit, n) when Limit > 0, and the two modes retain the same count.
C9_LimitPolicy ==
    (probe.done /\ probe.err = Nil /\ call.options.Limit >= 0)
        => LET expected == IF call.options.Limit = 0
                           THEN Min(RawCount, 25)
                           ELSE Min(call.options.Limit, RawCount)
           IN  /\ probe.limit = expected
               /\ call.options.Filter = NoFilter => OutputIsFirst(expected)
               /\ LoopIndices(retainLimit(RawCount, call.options))
                     = LoopIndices(tagsLimit(RawCount, call.options))

\* Limit = 40 on 30 raw hits retains 30, more than the ceiling of 25
C9_Witness ==
    /\ probe.done
    /\ ~call.options.ListTags
    /\ call.options.Limit = 40
    /\ RawCount = 30
    /\ Len(probe.data) = 30

\* C10 as stated: with a Limit <= 0 the search behaves as with Limit = 0,
\* it asks the client for 25 hits and retains the first min(n, 25) raw
\* items, in both modes.
C10_NonPositiveLimit ==
    (probe.done /\ probe.err = Nil /\ call.options.Limit <= 0
       /\ call.options.Filter = NoFilter)
        => /\ probe.requested = 25
           /\ OutputIsFirst(Min(RawCount, 25))

\* the call was a repository search that the client answered
SearchedRepositories == probe.done /\ ~call.options.ListTags /\ probe.err = Nil

\* an unset tri-state matches every flag, a set one the flag equal to it
TriStateMatches(tri, flag) ==
    \/ tri = "undefined"
    \/ tri = "true" /\ flag
    \/ tri = "false" /\ ~flag

\* the hit passes the three predicates of the call's filter
PassesFilter(hit) ==
    /\ hit.StarCount >= call.options.Filter.Stars
    /\ TriStateMatches(call.options.Filter.IsAutomated, hit.IsAutomated)
    /\ TriStateMatches(call.options.Filter.IsOfficial, hit.IsOfficial)

\* the result was made from the hit: its name ends in /<hit.Name> and its
\* stars and markers are the hit's
IsResultOf(result, hit) ==
    /\ Len(result.Name) > Len(hit.Name)
    /\ SubSeq(result.Name, Len(result.Name) - Len(hit.Name), Len(result.Name))
          = << "/" >> \o hit.Name
    /\ result.Stars = hit.StarCount
    /\ (result.Official = OK) = hit.IsOfficial
    /\ (result.Automated = OK) = hit.IsAutomated

\* C11: in repository-search mode a retained hit is in the output iff its
\* star count is at least Filter.Stars, Filter.IsAutomated is unset or
\* equal to the hit's flag, and Filter.IsOfficial is unset or equal to the
\* hit's flag.
C11_ResultFilter ==
    SearchedRepositories
        => \A j \in LoopIndices(probe.limit) :
              (\E m \in 1..Len(probe.data) : IsResultOf(probe.data[m], call.client.hits[j]))
                  = PassesFilter(call.client.hits[j])

\* under Filter.Stars = 5 and Filter.IsOfficial = true, a retained hit of 2
\* stars and a retained unofficial hit of 5 stars are left out, and an
\* official hit of 5 stars is in the output
C11_Witness ==
    /\ SearchedRepositories
    /\ call.options.Filter.Stars = 5
    /\ call.options.Filter.IsOfficial = "true"
    /\ call.options.Filter.IsAutomated = "undefined"
    /\ \E j \in LoopIndices(probe.limit) :
          /\ call.client.hits[j].StarCount = 2
          /\ call.client.hits[j].IsOfficial
          /\ \A m \in 1..Len(probe.data) : ~IsResultOf(probe.data[m], call.client.hits[j])
    /\ \E j \in LoopIndices(probe.limit) :
          /\ call.client.hits[j].StarCount = 5
          /\ ~call.client.hits[j].IsOfficial
          /\ \A m \in 1..Len(probe.data) : ~IsResultOf(probe.data[m], call.client.hits[j])
    /\ Len(probe.data) >= 1

\* the retained count of the limit policy for the call
PolicyCount ==
    IF call.options.Limit > 0
    THEN Min(call.options.Limit, RawCount)
    ELSE Min(RawCount, searchMaxQueries)

\* the positions, among the first PolicyCount raw hits, of the hit a result
\* was made from
SourcesOf(result) ==
    { j \in LoopIndices(PolicyCount) : IsResultOf(result, call.client.hits[j]) }

\* the position of the raw hit behind the m-th output result
SourceOf(m) == CHOOSE j \in SourcesOf(probe.data[m]) : TRUE

\* C17: in repository-search mode the filter is applied after the limit:
\* every output result comes from exactly one of the first L raw hits (L the
\* retained count of the limit policy), that hit passes the filter, the
\* results are in the order of their hits, the output is no longer than L,
\* and no output result comes from a hit beyond the first L.
C17_FilterAfterLimit ==
    SearchedRepositories
        => /\ Len(probe.data) <= PolicyCount
           /\ \A m \in 1..Len(probe.data) :
                 /\ Cardinality(SourcesOf(probe.data[m])) = 1
                 /\ PassesFilter(call.client.hits[SourceOf(m)])
                 /\ \A j \in (PolicyCount + 1)..RawCount :
                       ~IsResultOf(probe.data[m], call.client.hits[j])
           /\ \A m1, m2 \in 1..Len(probe.data) :
                 m1 < m2 => SourceOf(m1) < SourceOf(m2)

\* a hit among the first L was filtered out, a passing hit lies beyond the
\* first L, and the output has at least two results but fewer than L
C17_Witness ==
    /\ SearchedRepositories
    /\ \E j \in LoopIndices(PolicyCount) : ~PassesFilter(call.client.hits[j])
    /\ \E j \in (PolicyCount + 1)..RawCount : PassesFilter(call.client.hits[j])
    /\ Len(probe.data) >= 2
    /\ Len(probe.data) < PolicyCount

\* Start has resolved the registry list and the term
Resolved == pc # "start" /\ ret.line # 75

\* the positions of "/" in the term of the call
Slashes == { p \in 1..Len(input.term) : input.term[p] = "/" }

\* C12: if the term contains a "/", the text before the first "/" is
\* appended as the last entry of the registry list and the text after it
\* (which may contain "/") is the effective term; otherwise list and term
\* are unchanged. In tag mode every result of every registry, the configured
\* ones included, is named after the effective term.
C12_TermParser ==
    Resolved
        => /\ IF Slashes = {}
              THEN /\ searchRegistries = input.registries
                   /\ term = input.term
              ELSE LET first == CHOOSE p \in Slashes : \A q \in Slashes : p <= q
                   IN  /\ searchRegistries
                            = Append(input.registries, SubSeq(input.term, 1, first - 1))
                       /\ term = SubSeq(input.term, first + 1, Len(input.term))
           /\ input.options.ListTags
                 => \A k \in Written : \A m \in 1..Len(data[k].data) :
                       data[k].data[m].Name = searchRegistries[k] \o << "/" >> \o term

\* a term with two slashes was searched for on a configured registry, which
\* returned a tag of the repository named by the text after the first slash
C12_Witness ==
    /\ Returned
    /\ Cardinality(Slashes) = 2
    /\ input.registries = << QIo >>
    /\ input.options.ListTags
    /\ Len(data[1].data) = 1
    /\ data[1].data[1].Name = QIo \o << "/", "t", "/", "t" >>
    /\ Len(ret.results) >= 1

\* the positions of the dots of the call's registry
DotsOfRegistry == { p \in 1..Len(call.registry) : call.registry[p] = "." }

\* the registry's last two dot-separated labels when it has more than two,
\* the registry otherwise
LastTwoLabels ==
    IF Cardinality(DotsOfRegistry) >= 2
    THEN LET cut == CHOOSE p \in DotsOfRegistry :
                        Cardinality({ q \in DotsOfRegistry : q > p }) = 1
         IN  SubSeq(call.registry, cut + 1, Len(call.registry))
    ELSE call.registry

\* the name the claim gives a hit on the call's registry
QualifiedName(hit) ==
    IF LastTwoLabels = << "d", "o", "c", "k", "e", "r", ".", "i", "o" >>
       /\ \A p \in 1..Len(hit.Name) : hit.Name[p] # "/"
    THEN << "d", "o", "c", "k", "e", "r", ".", "i", "o", "/",
            "l", "i", "b", "r", "a", "r", "y", "/" >> \o hit.Name
    ELSE call.registry \o << "/" >> \o hit.Name

\* C13: a result's Name is registry/hit.Name, except that it is
\* docker.io/library/hit.Name when the registry's last two labels (the whole
\* registry when it has at most two) are docker.io and hit.Name has no "/".
\* Stated on the unfiltered searches, where the m-th result is the m-th hit.
C13_NameQualification ==
    (SearchedRepositories /\ call.options.Filter = NoFilter)
        => \A m \in 1..Len(probe.data) :
              probe.data[m].Name = QualifiedName(call.client.hits[m])

\* on a registry of three labels ending in docker.io, the hit "a" was named
\* docker.io/library/a and the hit "f/b" was named after the whole registry
C13_Witness ==
    /\ SearchedRepositories
    /\ call.registry = << "m", "." >> \o DockerIo
    /\ Len(probe.data) = 3
    /\ probe.data[1].Name = DockerIo \o Library \o << "a" >>
    /\ probe.data[2].Name = call.registry \o << "/", "f", "/", "b" >>

\* the description with its newlines replaced by spaces
Normalised(description) ==
    [p \in 1..Len(description) |-> IF description[p] = "\n" THEN " " ELSE description[p]]

\* the byte positions at which a character of the description starts
CharStarts(description) ==
    { p \in 1..Len(description) : description[p] \notin ContinuationBytes }

\* the first n characters of a description of more than n characters
FirstChars(description, n) ==
    LET next == CHOOSE p \in CharStarts(description) :
                    Cardinality({ q \in CharStarts(description) : q < p }) = n
    IN  SubSeq(description, 1, next - 1)

\* the description the claim gives a hit
Shortened(description) ==
    IF ~call.options.NoTrunc /\ Cardinality(CharStarts(description)) > 44
    THEN FirstChars(Normalised(description), 44) \o << ".", ".", "." >>
    ELSE Normalised(description)

\* C14: with NoTrunc = false a description of more than 44 characters
\* becomes its first 44 characters followed by "...", and one of at most 44
\* characters is kept whole; with NoTrunc = true it is never shortened
\* (newlines are spaces in the output either way).
C14_Truncation ==
    (SearchedRepositories /\ call.options.Filter = NoFilter)
        => \A m \in 1..Len(probe.data) :
              probe.data[m].Description = Shortened(call.client.hits[m].Description)

\* C15: no registry is queried twice, and when Search returns from a run
\* without cancellation every registry of the resolved list has been queried
\* exactly once, whatever the other registries' outcomes.
C15_EachRegistryOnce ==
    /\ \A k \in 1..Len(queries) : queries[k] <= 1
    /\ (Returned /\ ~cancelled /\ ret.line # 75)
          => /\ Len(queries) = Len(resolvedRegistries(input.registries, input.term))
             /\ \A k \in 1..Len(queries) : queries[k] = 1

\* an uncancelled Search over at least seven registries has returned; an
\* early registry failed, a later one gave results, and a task overtook one
\* launched before it
C15_Witness ==
    /\ Returned
    /\ ~cancelled
    /\ N > searchMaxParallel
    /\ overtook
    /\ \E k1, k2 \in 1..N :
          /\ k1 < k2
          /\ data[k1].err # Nil
          /\ Len(data[k2].data) >= 1
          /\ queries[k1] = 1
          /\ queries[k2] = 1

\* the step writes slot k
WritesSlot(k) == writes'[k] # writes[k] \/ data'[k] # data[k]

\* the step is the dispatcher's read of the slots, the aggregation of
\* search.go:115-123
ReadsSlots == pc = "acquire" /\ pc' = "returned" /\ ret'.line \in {128, 130}

\* C16: no data race on the slot array: a slot is written only by the step
\* of its own task, once, and the dispatcher reads the slots only when every
\* slot has been written by its task and no task is still to write.
C16_NoSlotRace ==
    /\ [](\A k \in 1..Len(writes) : writes[k] <= 1)
    /\ [][ /\ pc \in {"acquire", "returned"}
              => \A k \in 1..Len(data) :
                    WritesSlot(k) => /\ task[k] = "running"
                                     /\ task'[k] = "joined"
                                     /\ writes[k] = 0
                                     /\ writes'[k] = 1
                                     /\ \A j \in 1..Len(data) :
                                           j # k => ~WritesSlot(j)
           /\ ReadsSlots
              => \A k \in 1..Len(data) :
                    /\ task[k] \in {"joined", "exited"}
                    /\ writes[k] = 1 ]_vars

\* the dispatcher has read the slots of at least seven registries, each
\* written once, after a task had overtaken an earlier one, while tasks that
\* have written their slot were still to release their permit
C16_Witness ==
    /\ ReturnedAggregate
    /\ N > searchMaxParallel
    /\ overtook
    /\ \A k \in 1..N : writes[k] = 1
    /\ \E k \in 1..N : task[k] = "joined"

\* the tasks that were launched and have not yet written their slot
StillToWrite == { k \in 1..Len(task) : task[k] = "running" }

\* C19 as stated: whenever Search has returned, no task it launched is still
\* to write its slot.
C19_Original == Returned => StillToWrite = {}

\* C19: when Search returns from the aggregation, every registry's task was
\* launched, has written its slot and has called wg.Done (it may still have
\* its permit to release); when Search returns ctx's error from a failed
\* acquisition it has not waited: the tasks in flight, at most 6, are the
\* ones the wait group still counts besides the registries never launched.
C19_JoinedAtAggregation ==
    /\ ReturnedAggregate
          => /\ wg = 0
             /\ \A k \in 1..N : task[k] \in {"joined", "exited"}
    /\ ReturnedCanceled
          => /\ Cardinality(StillToWrite) <= searchMaxParallel
             /\ wg = Cardinality(StillToWrite) + (N + 1 - i)
             /\ NoneLaunchedFrom(i)

\* Search has returned ctx's error while six tasks it launched were still
\* to write their slots
C19_Witness ==
    /\ ReturnedCanceled
    /\ Cardinality(StillToWrite) = searchMaxParallel
    /\ wg > searchMaxParallel

\* C20 as stated: the number of held permits is 0 when Search returns from
\* the aggregation.
C20_Original == ReturnedAggregate => sem = 0

\* the step completes task k
Completes(k) == task[k] = "joined" /\ task'[k] = "exited"

\* C20: under a ctx never cancelled and queries that return, Search
\* eventually returns for every registry-list length; a task that completes
\* releases exactly one permit; the held permits always equal the tasks
\* launched and not yet completed, at most 6; they are 0 eventually, once
\* every task has completed, but not necessarily when Search returns.
C20_TerminationAndPermits ==
    /\ <>Returned
    /\ [](sem = Cardinality(InFlight) /\ sem <= searchMaxParallel)
    /\ [][ /\ \A k \in 1..Len(task) : Completes(k) => sem' = sem - 1
           /\ sem' < sem => \E k \in 1..Len(task) : Completes(k) ]_vars
    /\ [](ReturnedAggregate => sem = Cardinality({ k \in 1..N : task[k] = "joined" }))
    /\ <>[](Returned /\ sem = 0 /\ \A k \in 1..N : task[k] = "exited")

\* Search over seven registries has returned from the aggregation while the
\* last six tasks still held their permits
C20_Witness ==
    /\ ReturnedAggregate
    /\ N > searchMaxParallel
    /\ sem = searchMaxParallel

\* call c waits for a permit that its own pool has free
HasFreePermit(c) ==
    /\ pc = "pair"
    /\ pair[c].pc = "acquire"
    /\ pair[c].i <= PairLen
    /\ pair[c].sem < searchMaxParallel

\* C18: the permit pool belongs to one call: of two calls running side by
\* side each holds at most 6 permits of its own, a call with a free permit
\* of its own can always acquire it whatever the other call holds, and no
\* step of one call changes the other call's permits.
C18_PoolPerCall ==
    /\ [](\A c \in PairCalls :
             /\ pair[c].sem <= searchMaxParallel
             /\ HasFreePermit(c) => ENABLED AcquireAndLaunchOf(c))
    /\ [][ \A c \in PairCalls :
              pair'[c] # pair[c] => pair'[3 - c] = pair[3 - c] ]_vars

\* both calls have six tasks in flight, twelve in all, and both wait for a
\* seventh permit
C18_Witness ==
    /\ pc = "pair"
    /\ \A c \in PairCalls :
          /\ pair[c].pc = "acquire"
          /\ pair[c].running = searchMaxParallel
          /\ pair[c].i <= PairLen
    /\ pair[1].sem + pair[2].sem = 2 * searchMaxParallel

====
